---- MODULE Spec2Model ----
(***************************************************************************)
(* A model of jumpott/send: a resumable file transfer between a sender     *)
(* (src/client.rs, driven by the verbs of src/main.rs, with its ledger in  *)
(* src/db.rs) and a receiver (src/server.rs) over one TCP connection.      *)
(*                                                                         *)
(* Paths are sequences of components (std::path::Path::components).  File  *)
(* contents are sequences of byte values.  The two directions of the TCP   *)
(* connection are FIFO queues; a payload is written and read one byte at a *)
(* time, so that every partial delivery is a state of the model.           *)
(***************************************************************************)
EXTENDS Integers, Sequences, FiniteSets, TLC

\* ------------------------------------------------------------------ bounds

\* Largest size, in bytes, of a source file.
MaxSize == 2

\* Number of times the source tree is edited behind the sender's back.
MaxEdits == 1

\* Largest size, in bytes, of the source file whose name ends in ".tmp".
TmpSize == 2

\* What std::fs::Metadata::len gives for a directory is the platform's: 0 on
\* some, the size of the directory's own blocks on others.
DirBlock == 4096
DirSizes == {0, DirBlock}

\* The copy buffer of both peers: vec![0u8; 1024 * 1024].
BufSize == 1048576

\* ------------------------------------------------------------------- paths

\* Component::ParentDir and Component::RootDir.
ParentDir == ".."
RootDir == "/"

\* The receiver's base directory (run_server's base_path).
base_path == <<RootDir, "out">>

\* File names that occur as the stem of a name ending in ".tmp".
Stems == {"a", "a.tmp", "d", "e", "abs"}

\* Whether a file name ends in ".tmp".
EndsTmp(c) == \E s \in Stems : c = s \o ".tmp"

Last(s) == s[Len(s)]
Front(s) == SubSeq(s, 1, Len(s) - 1)

\* relative_path.components().any(|c| matches!(c, Component::ParentDir))
HasParentDir(p) == \E i \in 1..Len(p) : p[i] = ParentDir

\* Path::is_absolute on the receiver's platform.
IsAbsolute(p) == Len(p) > 0 /\ p[1] = RootDir

\* PathBuf::join: an absolute argument replaces the path it is joined to.
Join(b, p) == IF IsAbsolute(p) THEN p ELSE b \o p

\* target_path.with_file_name(format!("{}.tmp", file_name))
TempPath(target) == Front(target) \o <<Last(target) \o ".tmp">>

\* ------------------------------------------------------------- filesystems

\* A filesystem is a function from the paths that exist to their entries.
Dir == [dir |-> TRUE, data |-> <<>>]
File(bytes) == [dir |-> FALSE, data |-> bytes]

\* The bytes of a source file: each file and each position has its own value.
Bytes(tag, n) == [i \in 1..n |-> 10 * tag + i]

\* Path::exists
Exists(fs, p) == p \in DOMAIN fs

\* std::fs::Metadata::len of a regular file
FileLen(fs, p) == Len(fs[p].data)

\* std::fs::Metadata::len of any entry, a directory's being the platform's.
MetadataLen(fs, p, dirsize) == IF fs[p].dir THEN dirsize ELSE Len(fs[p].data)

\* The proper ancestors of a path and the path itself, below the root.
Prefixes(p) == {SubSeq(p, 1, i) : i \in 1..Len(p)}

\* fs::create_dir_all fails when a component exists and is no directory.
CreateDirAllFails(fs, p) == \E q \in Prefixes(p) : Exists(fs, q) /\ ~fs[q].dir

\* fs::create_dir_all: every missing component becomes a directory.
create_dir_all(fs, p) ==
    [q \in DOMAIN fs \cup Prefixes(p) |-> IF q \in DOMAIN fs THEN fs[q] ELSE Dir]

\* File::create fails when the parent is missing or the path is a directory.
FileCreateFails(fs, p) ==
    \/ ~Exists(fs, Front(p))
    \/ ~fs[Front(p)].dir
    \/ (Exists(fs, p) /\ fs[p].dir)

\* File::create: the file exists and is empty afterwards.
FileCreate(fs, p) ==
    [q \in DOMAIN fs \cup {p} |-> IF q = p THEN File(<<>>) ELSE fs[q]]

\* file.write_all on a handle of path p: the bytes go to the end of the file.
FileAppend(fs, p, bytes) ==
    [fs EXCEPT ![p] = File(fs[p].data \o bytes)]

\* fs::rename fails when the source is gone or the destination is a directory.
RenameFails(fs, from, to) ==
    \/ ~Exists(fs, from)
    \/ (Exists(fs, to) /\ fs[to].dir)

\* fs::rename: the destination is replaced and the source name disappears.
Rename(fs, from, to) ==
    [q \in (DOMAIN fs \cup {to}) \ {from} |-> IF q = to THEN fs[from] ELSE fs[q]]

\* ---------------------------------------------------------------- excludes

\* The exclude patterns a user may give: glob::Pattern matches the whole
\* normalized relative path, and "*" also matches path separators.
Patterns == {"*.tmp"}

\* glob::Pattern::matches
Matches(pat, p) ==
    CASE pat = "*.tmp" -> EndsTmp(Last(p))
      [] OTHER -> FALSE

\* No pattern is tried: nothing is excluded.
Excluded_Never(excl, p) == FALSE

\* patterns.iter().any(|p| p.matches(&relative_path))
Excluded(excl, p) == \E pat \in excl : Matches(pat, p)

\* ------------------------------------------------------------------- state

VARIABLES
    srcfs,           \* the sender's filesystem, by path relative to the source's parent
    walk,            \* the order in which WalkDir yields the source tree
    edits,           \* how often the source tree was edited so far
    dir_len,         \* what Metadata::len gives for a directory of the source
    history,         \* the transfer's row of the history table (send_history.db)
    ledger,          \* the rows of the files table, in rowid order
    pc,              \* where the sender process is, or how the last one ended
    cmd,             \* the verb the sender process runs, or the last one ran
    final_excludes,  \* the exclude patterns of the running verb
    scan_pos,        \* the next entry of walk that scan_files visits
    pending_files,   \* send_pending_files: the records still to handle
    fpos,            \* the position of the open source file
    remaining,       \* send_pending_files: bytes of the current file still to write
    buf,             \* bytes read from the source file and not yet written
    c2s,             \* the connection, sender to receiver: frames and payload bytes
    s2c,             \* the connection, receiver to sender: response frames
    rpc,             \* where the receiver's session is
    rfs,             \* the receiver's filesystem, by absolute path
    rfile,           \* handle_connection: target_path, temp_path and declared size
    rremaining,      \* handle_connection: the limit left of socket.take(remaining)
    rfs0,            \* the receiver's filesystem as it was before any verb ran
    catalog,         \* the ids of the rows of the history table
    logs,            \* the ledger files send_history_{id}.db, by id: their rows
    issued,          \* the ids add_transfer has returned, in order
    removing,        \* the id a remove has deleted the row of, or 0
    peer             \* a second session of the receiver and the sender it serves

sender_vars == <<pc, cmd, final_excludes, scan_pos, pending_files, fpos, remaining, buf>>
source_vars == <<srcfs, walk, edits, dir_len>>
receiver_vars == <<rpc, rfs, rfile, rremaining>>
other_vars == <<rfs0, catalog, logs, issued, removing, peer>>
vars == <<srcfs, walk, edits, dir_len, history, ledger, pc, cmd, final_excludes, scan_pos,
          pending_files, fpos, remaining, buf, c2s, s2c, rpc, rfs, rfile, rremaining,
          rfs0, catalog, logs, issued, removing, peer>>

NoFile == [target_path |-> <<>>, temp_path |-> <<>>, size |-> 0]
NoTransfer == [status |-> "Absent", listing_complete |-> FALSE, exclude_patterns |-> {}]

\* The source trees: a directory d holding the files a and a.tmp.
SourceTree(sa, st) ==
    (<<"d">> :> Dir) @@ (<<"d", "a">> :> File(Bytes(1, sa)))
                     @@ (<<"d", "a.tmp">> :> File(Bytes(2, st)))

\* WalkDir yields a directory before its entries, the entries in readdir order.
WalkOrders == {<<(<<"d">>), (<<"d", "a">>), (<<"d", "a.tmp">>)>>,
               <<(<<"d">>), (<<"d", "a.tmp">>), (<<"d", "a">>)>>}

\* The receiver's filesystem after run_server created the base directory.
EmptyBase == (<<RootDir>> :> Dir) @@ (base_path :> Dir)

\* The second session before its connection is accepted.
NoPeer ==
    [pc |-> "idle", rpc |-> "off", rfile |-> NoFile, rremaining |-> 0,
     c2s |-> <<>>, s2c |-> <<>>]

\* One transfer and one session: the history table is not looked at beyond the
\* transfer's row, and no second sender connects.
OneTransfer ==
    /\ catalog = {}
    /\ logs = <<>>
    /\ issued = <<>>
    /\ removing = 0
    /\ peer = NoPeer

IdleSender ==
    /\ pc = "idle"
    /\ cmd = "none"
    /\ final_excludes = {}
    /\ scan_pos = 0
    /\ pending_files = <<>>
    /\ fpos = 0
    /\ remaining = 0
    /\ buf = <<>>

Init ==
    /\ \E sa \in 0..MaxSize, st \in 1..TmpSize : srcfs = SourceTree(sa, st)
    /\ walk \in WalkOrders
    /\ edits = 0
    /\ dir_len \in DirSizes
    /\ history = NoTransfer
    /\ ledger = <<>>
    /\ IdleSender
    /\ c2s = <<>>
    /\ s2c = <<>>
    /\ rpc = "off"
    /\ rfs = EmptyBase
    /\ rfile = NoFile
    /\ rremaining = 0
    /\ rfs0 = EmptyBase
    /\ OneTransfer

\* ------------------------------------------------------------------ ledger

\* A plain INSERT: a row is added whether or not the path has one.
add_file_Insert(log, relative_path, size, is_dir) ==
    Append(log, [relative_path |-> relative_path, size |-> size,
                 is_dir |-> is_dir, status |-> "Pending"])

\* TransferLog::add_file: INSERT OR IGNORE on the unique relative_path.
add_file(log, relative_path, size, is_dir) ==
    IF \E i \in 1..Len(log) : log[i].relative_path = relative_path
    THEN log
    ELSE Append(log, [relative_path |-> relative_path, size |-> size,
                      is_dir |-> is_dir, status |-> "Pending"])

SetStatus(log, relative_path, status) ==
    [i \in 1..Len(log) |->
        IF log[i].relative_path = relative_path
        THEN [log[i] EXCEPT !.status = status]
        ELSE log[i]]

\* TransferLog::mark_sent
mark_sent(log, relative_path) == SetStatus(log, relative_path, "Sent")

\* TransferLog::mark_skipped
mark_skipped(log, relative_path) == SetStatus(log, relative_path, "Skipped")

IsPending(row) == row.status = "Pending"

\* The status filter left out: every row is handed to the send phase.
get_pending_files_All(log) == log

\* TransferLog::get_pending_files: the Pending rows, in rowid order.
get_pending_files(log) == SelectSeq(log, IsPending)

\* The rows are left in the ledger.
reset_Nothing(log) == log

\* DELETE FROM files WHERE status = 'Pending': the settled rows are kept.
reset_OnlyPending(log) == SelectSeq(log, LAMBDA row : row.status # "Pending")

\* TransferLog::reset: DELETE FROM files.
reset(log) == <<>>

\* Db::update_status
update_status(h, status) == [h EXCEPT !.status = status]

\* Db::set_listing_complete
set_listing_complete(h, complete) == [h EXCEPT !.listing_complete = complete]

\* ------------------------------------------------------------------ sender

\* No sender process runs: none ran yet ("idle"), send_pending_files returned Ok
\* ("sent") or Err ("unsent") and main recorded it, main returned the error of
\* an earlier step ("error"), the process was killed ("killed"), or a verb that
\* sends nothing returned ("done").
Stopped == {"idle", "sent", "unsent", "error", "killed", "done"}

\* The sender's end of the connection is open from connect until the process ends.
ClientOpen == pc \in {"loop", "await", "send", "resume"}

Min(a, b) == IF a < b THEN a ELSE b

\* FileMetadata, as a frame on the connection.
MetaFrame(record) ==
    [kind |-> "meta", relative_path |-> record.relative_path,
     size |-> record.size, is_dir |-> record.is_dir]

\* One byte of payload on the connection.
ByteItem(b) == [kind |-> "byte", b |-> b]

\* The sender process ends and its socket is dropped: what the receiver wrote
\* and the sender did not read is lost, what the sender wrote is still delivered.
Exit(h, how) ==
    /\ history' = h
    /\ pc' = how
    /\ cmd' = cmd
    /\ final_excludes' = {}
    /\ scan_pos' = 0
    /\ pending_files' = <<>>
    /\ fpos' = 0
    /\ remaining' = 0
    /\ buf' = <<>>
    /\ s2c' = <<>>

\* main: what push, resume and restart do with the result of send_pending_files.
StatusAfter(verb, ok, h) ==
    CASE verb = "push" -> update_status(h, IF ok THEN "Completed" ELSE "Failed")
      [] verb = "resume" -> IF ok THEN update_status(h, "Completed") ELSE h
      [] verb = "restart" -> update_status(h, IF ok THEN "Completed" ELSE "Failed")
      [] OTHER -> h

\* send_pending_files returns Ok (ok) or Err and main records it.
Finish(ok) == Exit(StatusAfter(cmd, ok, history), IF ok THEN "sent" ELSE "unsent")

\* main, Commands::Push: add_transfer, TransferLog::new, and on to scan_files.
Push(exclude) ==
    /\ pc \in Stopped
    /\ history.status = "Absent"
    /\ history' = [status |-> "Pending", listing_complete |-> FALSE,
                   exclude_patterns |-> exclude]
    /\ ledger' = <<>>
    /\ pc' = "scan"
    /\ cmd' = "push"
    /\ final_excludes' = exclude
    /\ scan_pos' = 1
    /\ UNCHANGED <<source_vars, other_vars, pending_files, fpos, remaining, buf, c2s, s2c,
                   receiver_vars>>

\* main, Commands::Resume: the excludes given replace the stored ones, and the
\* scan runs again only when the listing was left incomplete.
Resume(exclude) ==
    /\ pc \in Stopped
    /\ history.status # "Absent"
    /\ history' = IF exclude # {}
                  THEN [history EXCEPT !.exclude_patterns = exclude]
                  ELSE history
    /\ final_excludes' = IF exclude # {} THEN exclude ELSE history.exclude_patterns
    /\ cmd' = "resume"
    /\ IF history.listing_complete
       THEN pc' = "connect" /\ scan_pos' = 0
       ELSE pc' = "scan" /\ scan_pos' = 1
    /\ UNCHANGED <<source_vars, other_vars, ledger, pending_files, fpos, remaining, buf, c2s, s2c,
                   receiver_vars>>

\* main, Commands::Restart, up to log.reset(): the excludes given replace the
\* stored ones and the ledger's rows are deleted.
Restart(exclude) ==
    /\ pc \in Stopped
    /\ history.status # "Absent"
    /\ history' = IF exclude # {}
                  THEN [history EXCEPT !.exclude_patterns = exclude]
                  ELSE history
    /\ final_excludes' = IF exclude # {} THEN exclude ELSE history.exclude_patterns
    /\ cmd' = "restart"
    /\ ledger' = reset(ledger)
    /\ pc' = "reset"
    /\ UNCHANGED <<source_vars, other_vars, scan_pos, pending_files, fpos, remaining, buf, c2s, s2c,
                   receiver_vars>>

\* main, Commands::Restart, after log.reset(): set_listing_complete(false),
\* update_status("Pending"), and on to scan_files.
RestartMark ==
    /\ pc = "reset"
    /\ history' = update_status(set_listing_complete(history, FALSE), "Pending")
    /\ pc' = "scan"
    /\ scan_pos' = 1
    /\ UNCHANGED <<source_vars, other_vars, ledger, cmd, final_excludes, pending_files, fpos,
                   remaining, buf, c2s, s2c, receiver_vars>>

\* main, Commands::Remove, the removal confirmed: the transfer's row is deleted
\* and so is its ledger file.
Remove ==
    /\ pc \in Stopped
    /\ history.status # "Absent"
    /\ history' = NoTransfer
    /\ ledger' = <<>>
    /\ cmd' = "remove"
    /\ pc' = "done"
    /\ UNCHANGED <<source_vars, other_vars, final_excludes, scan_pos, pending_files, fpos,
                   remaining, buf, c2s, s2c, receiver_vars>>

\* scan_files, one entry of the walk: an entry an exclude pattern matches is
\* passed over, the others are added to the ledger.  An entry that vanished is
\* either not yielded by the walk or fails fs::metadata, and then scan_files and
\* main return the error with the transfer's row as it is.
ScanEntry ==
    /\ pc = "scan"
    /\ scan_pos <= Len(walk)
    /\ LET path == walk[scan_pos]
       IN  \E fails \in BOOLEAN :
              /\ fails => ~Exists(srcfs, path) /\ ~Excluded(final_excludes, path)
              /\ IF fails
                 THEN Exit(history, "error") /\ UNCHANGED ledger
                 ELSE /\ ledger' = IF Exists(srcfs, path) /\ ~Excluded(final_excludes, path)
                                   THEN add_file(ledger, path, MetadataLen(srcfs, path, dir_len),
                                                 srcfs[path].dir)
                                   ELSE ledger
                      /\ scan_pos' = scan_pos + 1
                      /\ UNCHANGED <<history, pc, cmd, final_excludes, pending_files,
                                     fpos, remaining, buf, s2c>>
    /\ UNCHANGED <<source_vars, other_vars, c2s, receiver_vars>>

\* scan_files returned Ok: main sets listing_complete and starts the send phase.
ScanDone ==
    /\ pc = "scan"
    /\ scan_pos > Len(walk)
    /\ history' = set_listing_complete(history, TRUE)
    /\ pc' = "connect"
    /\ scan_pos' = 0
    /\ UNCHANGED <<source_vars, other_vars, ledger, cmd, final_excludes, pending_files, fpos,
                   remaining, buf, c2s, s2c, receiver_vars>>

\* send_pending_files: TcpStream::connect succeeds, the receiver spawns a
\* session, and the pending records are read; none pending returns Ok at once.
Connect ==
    /\ pc = "connect"
    /\ rpc = "off"
    /\ c2s = <<>>
    /\ rpc' = "meta"
    /\ LET pending == get_pending_files(ledger)
       IN  IF pending = <<>>
           THEN Finish(TRUE)
           ELSE /\ pc' = "loop"
                /\ pending_files' = pending
                /\ UNCHANGED <<history, cmd, final_excludes, scan_pos, fpos, remaining,
                               buf, s2c>>
    /\ UNCHANGED <<source_vars, other_vars, ledger, c2s, rfs, rfile, rremaining>>

\* send_pending_files: TcpStream::connect fails.
ConnectFails ==
    /\ pc = "connect"
    /\ Finish(FALSE)
    /\ UNCHANGED <<source_vars, other_vars, ledger, c2s, receiver_vars>>

\* socket.write_all of one item.  A write to a connection the receiver has left
\* either fails or is lost without an error.
SockWrite(item, fails) ==
    IF rpc = "off"
    THEN /\ fails \in BOOLEAN
         /\ c2s' = c2s
    ELSE /\ fails = FALSE
         /\ c2s' = Append(c2s, item)

\* send_pending_files, the top of `for record in pending_files`, up to the
\* metadata frame being written.
NextRecord ==
    /\ pc = "loop"
    /\ IF pending_files = <<>>
       THEN /\ Finish(TRUE)
            /\ UNCHANGED <<ledger, c2s>>
       ELSE LET record == Head(pending_files)
            IN  IF Excluded(final_excludes, record.relative_path)
                THEN /\ ledger' = mark_skipped(ledger, record.relative_path)
                     /\ pending_files' = Tail(pending_files)
                     /\ UNCHANGED <<history, pc, cmd, final_excludes, scan_pos, fpos,
                                    remaining, buf, c2s, s2c>>
                ELSE IF ~Exists(srcfs, record.relative_path)
                THEN /\ pending_files' = Tail(pending_files)
                     /\ UNCHANGED <<history, ledger, pc, cmd, final_excludes, scan_pos,
                                    fpos, remaining, buf, c2s, s2c>>
                ELSE \E fails \in BOOLEAN :
                        /\ SockWrite(MetaFrame(record), fails)
                        /\ IF fails
                           THEN Finish(FALSE)
                           ELSE /\ pc' = "await"
                                /\ UNCHANGED <<history, cmd, final_excludes, scan_pos,
                                               pending_files, fpos, remaining, buf, s2c>>
                        /\ UNCHANGED ledger
    /\ UNCHANGED <<source_vars, other_vars, receiver_vars>>

\* ServerResponse, as a frame on the connection.
Response(kind, offset) == [kind |-> kind, offset |-> offset]

\* The record is done: the loop goes on with the next one.
Continue(log) ==
    /\ ledger' = log
    /\ pending_files' = Tail(pending_files)
    /\ pc' = "loop"
    /\ fpos' = 0
    /\ remaining' = 0
    /\ buf' = <<>>
    /\ UNCHANGED <<history, cmd, final_excludes, scan_pos>>

\* Skip taken the same way for every record.
OnSkip_AllSkipped(log, record) == mark_skipped(log, record.relative_path)

\* ServerResponse::Skip: a regular file is marked Skipped, a directory Sent.
OnSkip(log, record) ==
    IF ~record.is_dir
    THEN mark_skipped(log, record.relative_path)
    ELSE mark_sent(log, record.relative_path)

\* ServerResponse::Send: whether the size check lets the file be streamed.
SizeUnchanged(fs, record) == FileLen(fs, record.relative_path) = record.size

\* The file is open and the copy loop starts at position `from`.
StartStream(state, from, count) ==
    /\ pc' = state
    /\ fpos' = from
    /\ remaining' = count
    /\ buf' = <<>>
    /\ UNCHANGED <<history, ledger, cmd, final_excludes, scan_pos, pending_files>>

\* send_pending_files: the response frame is read and dispatched.
ReadResponse ==
    /\ pc = "await"
    /\ s2c # <<>>
    /\ LET response == Head(s2c)
           record == Head(pending_files)
           path == record.relative_path
       IN  CASE response.kind = "Skip" ->
                    /\ Continue(OnSkip(ledger, record))
                    /\ s2c' = Tail(s2c)
             [] response.kind = "Send" ->
                    IF record.is_dir
                    THEN /\ Continue(mark_sent(ledger, path))
                         /\ s2c' = Tail(s2c)
                    ELSE IF ~Exists(srcfs, path) \/ ~SizeUnchanged(srcfs, record)
                    THEN Finish(FALSE) /\ UNCHANGED ledger
                    ELSE /\ StartStream("send", 0, record.size)
                         /\ s2c' = Tail(s2c)
             [] response.kind = "Resume" ->
                    IF record.is_dir
                    THEN /\ Continue(mark_sent(ledger, path))
                         /\ s2c' = Tail(s2c)
                    ELSE IF ~Exists(srcfs, path)
                    THEN Finish(FALSE) /\ UNCHANGED ledger
                    ELSE /\ StartStream("resume", response.offset,
                                        record.size - response.offset)
                         /\ s2c' = Tail(s2c)
             [] OTHER -> Finish(FALSE) /\ UNCHANGED ledger
    /\ UNCHANGED <<source_vars, other_vars, c2s, receiver_vars>>

\* send_pending_files: read_exact on the response fails, the receiver being gone.
ReadResponseFails ==
    /\ pc = "await"
    /\ s2c = <<>>
    /\ rpc = "off"
    /\ Finish(FALSE)
    /\ UNCHANGED <<source_vars, other_vars, ledger, c2s, receiver_vars>>

\* The bytes a read of `count` bytes at position `from` finds in the file.
FileRead(fs, path, from, count) ==
    LET len == FileLen(fs, path)
        n == IF len - from < 0 THEN 0 ELSE Min(count, len - from)
    IN  SubSeq(fs[path].data, from + 1, from + n)

\* Whether the Resume arm's copy loop, having read n bytes where to_read were
\* asked for, goes on to mark the record Sent: it breaks on `n == 0`, the end
\* of the file, as it does on `to_read == 0`.
ResumeBreaks(to_read, n) == to_read = 0 \/ n = 0

\* send_pending_files, the copy loops at `let to_read = ...`: the next chunk is
\* read from the file, or the loop is left and the record marked Sent.
ReadChunk ==
    /\ pc \in {"send", "resume"}
    /\ buf = <<>>
    /\ LET record == Head(pending_files)
           path == record.relative_path
           to_read == Min(BufSize, remaining)
           chunk == FileRead(srcfs, path, fpos, to_read)
       IN  IF pc = "send"
           THEN IF to_read = 0
                THEN IF record.size - remaining # record.size
                     THEN Finish(FALSE) /\ UNCHANGED ledger
                     ELSE Continue(mark_sent(ledger, path)) /\ UNCHANGED s2c
                ELSE IF Len(chunk) < to_read
                THEN Finish(FALSE) /\ UNCHANGED ledger
                ELSE /\ buf' = chunk
                     /\ fpos' = fpos + Len(chunk)
                     /\ UNCHANGED <<history, ledger, pc, cmd, final_excludes, scan_pos,
                                    pending_files, remaining, s2c>>
           ELSE IF ResumeBreaks(to_read, Len(chunk))
                THEN Continue(mark_sent(ledger, path)) /\ UNCHANGED s2c
                ELSE /\ buf' = chunk
                     /\ fpos' = fpos + Len(chunk)
                     /\ UNCHANGED <<history, ledger, pc, cmd, final_excludes, scan_pos,
                                    pending_files, remaining, s2c>>
    /\ UNCHANGED <<source_vars, other_vars, c2s, receiver_vars>>

\* socket.write_all(&buf[..n]), one byte of it.
WriteByte ==
    /\ pc \in {"send", "resume"}
    /\ buf # <<>>
    /\ \E fails \in BOOLEAN :
          /\ SockWrite(ByteItem(Head(buf)), fails)
          /\ IF fails
             THEN Finish(FALSE)
             ELSE /\ buf' = Tail(buf)
                  /\ remaining' = remaining - 1
                  /\ UNCHANGED <<history, pc, cmd, final_excludes, scan_pos,
                                 pending_files, fpos, s2c>>
    /\ UNCHANGED <<source_vars, other_vars, ledger, receiver_vars>>

\* The sender process is killed: no status is recorded.
Kill ==
    /\ pc \notin Stopped
    /\ Exit(history, "killed")
    /\ UNCHANGED <<source_vars, other_vars, ledger, c2s, receiver_vars>>

\* ------------------------------------------------------------ source edits

RegularFiles(fs) == {p \in DOMAIN fs : ~fs[p].dir}

\* Whether the sender holds the file open.
HeldOpen(p) ==
    /\ pc \in {"send", "resume"}
    /\ Head(pending_files).relative_path = p

\* A source file is truncated or extended between scan and send.
SrcResize ==
    /\ edits < MaxEdits
    /\ \E p \in RegularFiles(srcfs), n \in 0..MaxSize :
          /\ n # FileLen(srcfs, p)
          /\ srcfs' = [srcfs EXCEPT ![p] =
                File(IF n < FileLen(srcfs, p)
                     THEN SubSeq(srcfs[p].data, 1, n)
                     ELSE srcfs[p].data \o [i \in 1..(n - FileLen(srcfs, p)) |-> 99])]
    /\ edits' = edits + 1
    /\ UNCHANGED <<walk, dir_len, history, ledger, sender_vars, c2s, s2c, receiver_vars,
                   other_vars>>

\* A source file is deleted between scan and send.
SrcRemove ==
    /\ edits < MaxEdits
    /\ \E p \in RegularFiles(srcfs) :
          /\ ~HeldOpen(p)
          /\ srcfs' = [q \in DOMAIN srcfs \ {p} |-> srcfs[q]]
    /\ edits' = edits + 1
    /\ UNCHANGED <<walk, dir_len, history, ledger, sender_vars, c2s, s2c, receiver_vars,
                   other_vars>>

\* ---------------------------------------------------------------- receiver

\* The path safety check left out: every path is taken.
PathRejected_Unchecked(relative_path) == FALSE

\* handle_connection: the path safety check on the decomposed relative path.
PathRejected(relative_path) == HasParentDir(relative_path)

\* The size comparison of `skip` turned around.
SkipExisting_Inverted(fs, target_path, size) ==
    Exists(fs, target_path) /\ FileLen(fs, target_path) # size

\* handle_connection: `skip`, the target exists and has the declared size.
SkipExisting(fs, target_path, size) ==
    Exists(fs, target_path) /\ FileLen(fs, target_path) = size

\* The resume offset chosen away: a temp file shorter than the size is sent anew.
DecideResponse_NoResume(offset, size) ==
    IF offset >= size THEN Response("Skip", 0) ELSE Response("Send", 0)

\* A temp file of exactly the declared size taken for one still to be filled.
DecideResponse_FullTempSent(offset, size) ==
    IF offset > 0 /\ offset < size THEN Response("Resume", offset)
    ELSE IF offset > size THEN Response("Skip", 0)
    ELSE Response("Send", 0)

\* handle_connection: the response chosen from the temp file's length.
DecideResponse(offset, size) ==
    IF offset > 0 /\ offset < size THEN Response("Resume", offset)
    ELSE IF offset >= size THEN Response("Skip", 0)
    ELSE Response("Send", 0)

\* What handling a frame leaves: the filesystem, the response written (of
\* kind "None" when an error ended the session first) and the session's next state.
Outcome(fs, response, state, file, count) ==
    [fs |-> fs, response |-> response, rpc |-> state, file |-> file, remaining |-> count]

Failed(fs) == Outcome(fs, Response("None", 0), "off", NoFile, 0)

\* file.shutdown or file.flush, then fs::rename(&temp_path, &target_path).
Finalize(fs, file) == Rename(fs, file.temp_path, file.target_path)

\* A temp file longer than the declared size kept as it is.
OpenExisting_NoRestart(fs, temp_path, size) ==
    [ok |-> TRUE, fs |-> fs, offset |-> FileLen(fs, temp_path)]

\* handle_connection: the temp file that exists is opened for appending; one
\* longer than the declared size is created anew and the offset is 0.
OpenExisting(fs, temp_path, size) ==
    IF FileLen(fs, temp_path) > size
    THEN [ok |-> TRUE, fs |-> FileCreate(fs, temp_path), offset |-> 0]
    ELSE [ok |-> TRUE, fs |-> fs, offset |-> FileLen(fs, temp_path)]

\* handle_connection for a regular file that is not skipped: the temp file is
\* opened for appending or created, and the response follows from its length.
ReceiveFile(fs, target_path, size) ==
    LET temp_path == TempPath(target_path)
        file == [target_path |-> target_path, temp_path |-> temp_path, size |-> size]
        parent == Front(temp_path)
        opened ==
            IF Exists(fs, temp_path)
            THEN IF fs[temp_path].dir
                 THEN [ok |-> FALSE, fs |-> fs, offset |-> 0]
                 ELSE OpenExisting(fs, temp_path, size)
            ELSE IF CreateDirAllFails(fs, parent)
                 THEN [ok |-> FALSE, fs |-> fs, offset |-> 0]
                 ELSE IF FileCreateFails(create_dir_all(fs, parent), temp_path)
                      THEN [ok |-> FALSE, fs |-> create_dir_all(fs, parent), offset |-> 0]
                      ELSE [ok |-> TRUE,
                            fs |-> FileCreate(create_dir_all(fs, parent), temp_path),
                            offset |-> 0]
        response == DecideResponse(opened.offset, size)
    IN  IF ~opened.ok THEN Failed(opened.fs)
        ELSE IF response.kind = "Skip"
        THEN IF RenameFails(opened.fs, temp_path, target_path)
             THEN Failed(opened.fs)
             ELSE Outcome(Finalize(opened.fs, file), response, "meta", NoFile, 0)
        ELSE Outcome(opened.fs, response, "stream", file, size - opened.offset)

\* handle_connection, one pass of the session loop for a metadata frame, up to
\* the response and the start of the payload intake.
handle_metadata(fs, metadata) ==
    LET target_path == Join(base_path, metadata.relative_path)
    IN  IF PathRejected(metadata.relative_path)
        THEN Outcome(fs, Response("Error", 0), "meta", NoFile, 0)
        ELSE IF metadata.is_dir
        THEN IF CreateDirAllFails(fs, target_path)
             THEN Failed(fs)
             ELSE Outcome(create_dir_all(fs, target_path), Response("Skip", 0), "meta",
                          NoFile, 0)
        ELSE IF SkipExisting(fs, target_path, metadata.size)
        THEN Outcome(fs, Response("Skip", 0), "meta", NoFile, 0)
        ELSE ReceiveFile(fs, target_path, metadata.size)

\* The session ends: its socket is dropped and what it had not read is lost.
SessionEnds ==
    /\ rpc' = "off"
    /\ rfile' = NoFile
    /\ rremaining' = 0
    /\ c2s' = <<>>

\* handle_connection reads a metadata frame, acts on it and responds.  The
\* response written to a sender that is gone is lost, with or without an error.
RecvMeta ==
    /\ rpc = "meta"
    /\ c2s # <<>>
    /\ Head(c2s).kind = "meta"
    /\ LET out == handle_metadata(rfs, Head(c2s))
       IN  /\ rfs' = out.fs
           /\ \E fails \in BOOLEAN :
                 /\ fails => ~ClientOpen /\ out.response.kind # "None"
                 /\ IF out.response.kind = "None" \/ fails
                    THEN SessionEnds /\ UNCHANGED s2c
                    ELSE /\ s2c' = IF ClientOpen THEN Append(s2c, out.response) ELSE s2c
                         /\ rpc' = out.rpc
                         /\ rfile' = out.file
                         /\ rremaining' = out.remaining
                         /\ c2s' = Tail(c2s)
    /\ UNCHANGED <<source_vars, other_vars, history, ledger, sender_vars>>

\* file.write_all on the session's handle of the temp file.  The handle stays
\* with the file when another session renames it to the target, and what is
\* written to a file that has no name any more is lost.
WriteHandle(fs, file, bytes) ==
    IF Exists(fs, file.temp_path) THEN FileAppend(fs, file.temp_path, bytes)
    ELSE IF Exists(fs, file.target_path) /\ ~fs[file.target_path].dir
    THEN FileAppend(fs, file.target_path, bytes)
    ELSE fs

\* The bytes one read of the payload intake takes from the connection: a payload
\* byte, or, where the sender went on to its next frame, that frame's first
\* bytes up to the limit (a frame is longer than any payload of the model).
Intake(item, limit) ==
    IF item.kind = "byte" THEN <<item.b>> ELSE [i \in 1..limit |-> 0]

\* handle_connection, the payload intake: take.read returns bytes, they are
\* written to the temp file, and at the limit the file is flushed and renamed.
RecvByte ==
    /\ rpc = "stream"
    /\ c2s # <<>>
    /\ LET item == Head(c2s)
           bytes == Intake(item, rremaining)
           written == WriteHandle(rfs, rfile, bytes)
       IN  IF rremaining - Len(bytes) > 0
           THEN /\ rfs' = written
                /\ rremaining' = rremaining - Len(bytes)
                /\ c2s' = Tail(c2s)
                /\ UNCHANGED <<rpc, rfile>>
           ELSE IF RenameFails(written, rfile.temp_path, rfile.target_path)
           THEN /\ rfs' = written
                /\ SessionEnds
           ELSE /\ rfs' = Finalize(written, rfile)
                /\ rpc' = IF item.kind = "byte" THEN "meta" ELSE "desync"
                /\ rfile' = NoFile
                /\ rremaining' = 0
                /\ c2s' = Tail(c2s)
    /\ UNCHANGED <<source_vars, other_vars, history, ledger, sender_vars, s2c>>

\* handle_connection after the sender closed and everything sent was read:
\* awaiting a frame the session ends; in the payload intake take.read returns
\* 0, the loop is left, and the temp file is flushed and renamed as it is.
RecvEof ==
    /\ rpc \in {"meta", "stream", "desync"}
    /\ c2s = <<>>
    /\ ~ClientOpen
    /\ rfs' = IF rpc = "stream" /\ ~RenameFails(rfs, rfile.temp_path, rfile.target_path)
              THEN Finalize(rfs, rfile)
              ELSE rfs
    /\ SessionEnds
    /\ UNCHANGED <<source_vars, other_vars, history, ledger, sender_vars, s2c>>

\* The connection breaks: the session's next read fails, it ends with the
\* error, and what was in flight in either direction is lost.
ConnectionReset ==
    /\ rpc # "off"
    /\ SessionEnds
    /\ s2c' = <<>>
    /\ UNCHANGED <<source_vars, other_vars, history, ledger, sender_vars, rfs>>

\* ----------------------------------------------------------- specification

Next ==
    \/ \E exclude \in SUBSET Patterns : Push(exclude)
    \/ \E exclude \in SUBSET Patterns : Resume(exclude)
    \/ ScanEntry
    \/ ScanDone
    \/ Connect
    \/ ConnectFails
    \/ NextRecord
    \/ ReadResponse
    \/ ReadResponseFails
    \/ ReadChunk
    \/ WriteByte
    \/ Kill
    \/ SrcResize
    \/ SrcRemove
    \/ RecvMeta
    \/ RecvByte
    \/ RecvEof
    \/ ConnectionReset

Spec == Init /\ [][Next]_vars

\* The sender is interrupted, and nothing else goes wrong: the source tree
\* stays as it was scanned and the connection does not break.
NextStatic ==
    \/ \E exclude \in SUBSET Patterns : Push(exclude)
    \/ \E exclude \in SUBSET Patterns : Resume(exclude)
    \/ ScanEntry
    \/ ScanDone
    \/ Connect
    \/ NextRecord
    \/ ReadResponse
    \/ ReadChunk
    \/ WriteByte
    \/ Kill
    \/ RecvMeta
    \/ RecvByte
    \/ RecvEof

SpecStatic == Init /\ [][NextStatic]_vars

\* A sender whose ledger was not written by scan_files (the malicious sender of
\* the path-traversal scenario): resume sends whatever rows the ledger file
\* holds.  Its rows name ../e, /abs and e, as files or as directories.
ForgedPaths == {<<ParentDir, "e">>, <<RootDir, "abs">>, <<"e">>}

ForgedRows ==
    {[relative_path |-> p, size |-> 1, is_dir |-> d, status |-> "Pending"] :
        p \in ForgedPaths, d \in BOOLEAN}

ForgedLedgers ==
    {<<r>> : r \in ForgedRows}
        \cup {<<pair[1], pair[2]>> :
                pair \in {x \in ForgedRows \X ForgedRows :
                             x[1].relative_path # x[2].relative_path}}

InitForged ==
    /\ srcfs = (<<ParentDir, "e">> :> File(Bytes(3, 1)))
                  @@ (<<RootDir, "abs">> :> File(Bytes(4, 1)))
                  @@ (<<"e">> :> File(Bytes(5, 1)))
    /\ walk = <<>>
    /\ edits = 0
    /\ dir_len = 0
    /\ history = [status |-> "Failed", listing_complete |-> TRUE, exclude_patterns |-> {}]
    /\ ledger \in ForgedLedgers
    /\ IdleSender
    /\ c2s = <<>>
    /\ s2c = <<>>
    /\ rpc = "off"
    /\ rfs = EmptyBase
    /\ rfile = NoFile
    /\ rremaining = 0
    /\ rfs0 = EmptyBase
    /\ OneTransfer

NextForged ==
    \/ \E exclude \in SUBSET Patterns : Resume(exclude)
    \/ Connect
    \/ ConnectFails
    \/ NextRecord
    \/ ReadResponse
    \/ ReadResponseFails
    \/ ReadChunk
    \/ WriteByte
    \/ Kill
    \/ RecvMeta
    \/ RecvByte
    \/ RecvEof
    \/ ConnectionReset

SpecForged == InitForged /\ [][NextForged]_vars

\* All three verbs that run a transfer: a transfer may also be restarted.  The
\* sender is interrupted, the receiver may be down and source files may vanish;
\* the connection does not break and no source file changes its size.
NextRestart ==
    \/ \E exclude \in SUBSET Patterns : Push(exclude)
    \/ \E exclude \in SUBSET Patterns : Resume(exclude)
    \/ \E exclude \in SUBSET Patterns : Restart(exclude)
    \/ RestartMark
    \/ ScanEntry
    \/ ScanDone
    \/ Connect
    \/ ConnectFails
    \/ NextRecord
    \/ ReadResponse
    \/ ReadChunk
    \/ WriteByte
    \/ Kill
    \/ SrcRemove
    \/ RecvMeta
    \/ RecvByte
    \/ RecvEof

SpecRestart == Init /\ [][NextRestart]_vars

\* scan_files run to its end on the entries the walk yields: the ledger it leaves.
RECURSIVE ScanAll(_, _, _)
ScanAll(log, entries, excl) ==
    IF entries = <<>> THEN log
    ELSE LET path == Head(entries)
         IN  ScanAll(IF Exists(srcfs, path) /\ ~Excluded(excl, path)
                     THEN add_file(log, path, MetadataLen(srcfs, path, dir_len),
                                   srcfs[path].dir)
                     ELSE log,
                     Tail(entries), excl)

\* send_pending_files and handle_connection run to their end on the records,
\* one after the other with nothing going wrong: the receiver's filesystem they
\* leave.  Each frame is handled, and where the session goes into the payload
\* intake the bytes from the offset on are appended and the temp file renamed.
RECURSIVE Delivered(_, _)
Delivered(fs, records) ==
    IF records = <<>> THEN fs
    ELSE LET record == Head(records)
             out == handle_metadata(fs, MetaFrame(record))
             from == record.size - out.remaining
             payload == FileRead(srcfs, record.relative_path, from, out.remaining)
         IN  Delivered(IF out.rpc = "stream"
                       THEN Finalize(FileAppend(out.fs, out.file.temp_path, payload),
                                     out.file)
                       ELSE out.fs,
                       Tail(records))

\* What an earlier run of the transfer that failed has left: the listing
\* complete, the directory Sent, the file listed first Pending or Sent and the
\* other Pending; on the receiver the directory and, as `given` says, nothing
\* more, the first file whole, or its temp file holding its first byte.
PriorLedger(first_status) ==
    LET listed == ScanAll(<<>>, walk, {})
    IN  [i \in 1..Len(listed) |->
            [listed[i] EXCEPT !.status =
                CASE i = 1 -> "Sent"
                  [] i = 2 -> first_status
                  [] OTHER -> "Pending"]]

PriorReceiver(given) ==
    LET first == walk[2]
        d == EmptyBase @@ (Join(base_path, <<"d">>) :> Dir)
    IN  CASE given = "whole" -> d @@ (Join(base_path, first) :> srcfs[first])
          [] given = "part" ->
                d @@ (TempPath(Join(base_path, first))
                        :> File(SubSeq(srcfs[first].data, 1, 1)))
          [] OTHER -> d

PriorGiven(first_status) ==
    {given \in {"none", "whole", "part"} :
        /\ given = "part" => FileLen(srcfs, walk[2]) > 1
        /\ given = "whole" => FileLen(srcfs, walk[2]) > 0
        /\ given = "none" => first_status = "Pending"}

InitEquiv ==
    /\ \E sa \in 0..MaxSize, st \in 1..TmpSize : srcfs = SourceTree(sa, st)
    /\ walk \in WalkOrders
    /\ edits = 0
    /\ dir_len \in DirSizes
    /\ \E exclude \in SUBSET Patterns :
          history = [status |-> "Failed", listing_complete |-> TRUE,
                     exclude_patterns |-> exclude]
    /\ \E first_status \in {"Sent", "Pending"} :
          /\ ledger = PriorLedger(first_status)
          /\ \E given \in PriorGiven(first_status) : rfs = PriorReceiver(given)
    /\ IdleSender
    /\ c2s = <<>>
    /\ s2c = <<>>
    /\ rpc = "off"
    /\ rfile = NoFile
    /\ rremaining = 0
    /\ rfs0 = rfs
    /\ OneTransfer

\* One run on the transfer an earlier run has left: a restart, or a remove and
\* then a push, with nothing going wrong.
NextEquiv ==
    \/ pc = "idle" /\ \E exclude \in SUBSET Patterns : Restart(exclude)
    \/ RestartMark
    \/ pc = "idle" /\ Remove
    \/ \E exclude \in SUBSET Patterns : Push(exclude)
    \/ ScanEntry
    \/ ScanDone
    \/ Connect
    \/ NextRecord
    \/ ReadResponse
    \/ ReadChunk
    \/ WriteByte
    \/ RecvMeta
    \/ RecvByte
    \/ RecvEof

SpecEquiv == InitEquiv /\ [][NextEquiv]_vars

\* ------------------------------------------------------ a second session

\* The frame of the second sender, which sends d/a as the first one does.
PeerFrame ==
    [kind |-> "meta", relative_path |-> <<"d", "a">>,
     size |-> FileLen(srcfs, <<"d", "a">>), is_dir |-> FALSE]

\* What the second session's actions leave alone.
first_vars == <<source_vars, history, ledger, sender_vars, c2s, s2c, rpc, rfile,
                rremaining, rfs0, catalog, logs, issued, removing>>

\* run_server accepts the second connection and spawns its session; the second
\* sender writes its metadata frame.
PeerConnect ==
    /\ peer.pc = "idle"
    /\ Exists(srcfs, <<"d", "a">>)
    /\ peer' = [peer EXCEPT !.pc = "await", !.rpc = "meta", !.c2s = <<PeerFrame>>]
    /\ UNCHANGED <<first_vars, rfs>>

\* handle_connection of the second session reads the frame, acts on it and responds.
PeerRecvMeta ==
    /\ peer.rpc = "meta"
    /\ peer.c2s # <<>>
    /\ Head(peer.c2s).kind = "meta"
    /\ LET out == handle_metadata(rfs, Head(peer.c2s))
       IN  /\ rfs' = out.fs
           /\ peer' = IF out.response.kind = "None"
                      THEN [peer EXCEPT !.rpc = "off", !.rfile = NoFile,
                                        !.rremaining = 0, !.c2s = <<>>]
                      ELSE [peer EXCEPT !.rpc = out.rpc, !.rfile = out.file,
                                        !.rremaining = out.remaining,
                                        !.c2s = Tail(@),
                                        !.s2c = Append(@, out.response)]
    /\ UNCHANGED first_vars

\* The second sender reads the response and, told to Send or to Resume, writes
\* the file from the offset on; then it is done and closes.
PeerReadResponse ==
    /\ peer.pc = "await"
    /\ peer.s2c # <<>>
    /\ LET response == Head(peer.s2c)
           payload == IF response.kind \in {"Send", "Resume"}
                      THEN FileRead(srcfs, <<"d", "a">>, response.offset,
                                    PeerFrame.size - response.offset)
                      ELSE <<>>
       IN  peer' = [peer EXCEPT !.pc = "done", !.s2c = Tail(@),
                                !.c2s = @ \o [i \in 1..Len(payload) |->
                                                 ByteItem(payload[i])]]
    /\ UNCHANGED <<first_vars, rfs>>

\* handle_connection of the second session, the payload intake.
PeerRecvByte ==
    /\ peer.rpc = "stream"
    /\ peer.c2s # <<>>
    /\ LET bytes == Intake(Head(peer.c2s), peer.rremaining)
           written == WriteHandle(rfs, peer.rfile, bytes)
       IN  IF peer.rremaining - Len(bytes) > 0
           THEN /\ rfs' = written
                /\ peer' = [peer EXCEPT !.rremaining = @ - Len(bytes), !.c2s = Tail(@)]
           ELSE IF RenameFails(written, peer.rfile.temp_path, peer.rfile.target_path)
           THEN /\ rfs' = written
                /\ peer' = [peer EXCEPT !.rpc = "off", !.rfile = NoFile,
                                        !.rremaining = 0, !.c2s = <<>>]
           ELSE /\ rfs' = Finalize(written, peer.rfile)
                /\ peer' = [peer EXCEPT !.rpc = "meta", !.rfile = NoFile,
                                        !.rremaining = 0, !.c2s = Tail(@)]
    /\ UNCHANGED first_vars

\* handle_connection of the second session after its sender closed: awaiting a
\* frame it ends; in the payload intake the temp file is renamed as it is.
PeerRecvEof ==
    /\ peer.rpc \in {"meta", "stream"}
    /\ peer.c2s = <<>>
    /\ peer.pc = "done"
    /\ rfs' = IF /\ peer.rpc = "stream"
                 /\ ~RenameFails(rfs, peer.rfile.temp_path, peer.rfile.target_path)
              THEN Finalize(rfs, peer.rfile)
              ELSE rfs
    /\ peer' = [peer EXCEPT !.rpc = "off", !.rfile = NoFile, !.rremaining = 0]
    /\ UNCHANGED first_vars

\* Two senders push the same tree to the receiver at once, and nothing goes
\* wrong: no process is killed and no connection breaks.
NextTwoSessions ==
    \/ Push(Patterns)
    \/ ScanEntry
    \/ ScanDone
    \/ Connect
    \/ NextRecord
    \/ ReadResponse
    \/ ReadChunk
    \/ WriteByte
    \/ RecvMeta
    \/ RecvByte
    \/ RecvEof
    \/ PeerConnect
    \/ PeerRecvMeta
    \/ PeerReadResponse
    \/ PeerRecvByte
    \/ PeerRecvEof

SpecTwoSessions == Init /\ [][NextTwoSessions]_vars

\* ----------------------------------------------------- the history table

\* How many transfers are created.
MaxTransfers == 3

\* The one entry the transfers of the history table list and send.
Entry == <<"e">>

SetMax(ids) == CHOOSE m \in ids : \A i \in ids : i <= m

\* The rowid SQLite gives a row inserted into `history`, whose id is an INTEGER
\* PRIMARY KEY without AUTOINCREMENT: one more than the largest id in the table.
next_id(ids, given) == IF ids = {} THEN 1 ELSE SetMax(ids) + 1

\* TransferLog::new: the ledger file of the id is opened, and created empty
\* when there is none (CREATE TABLE IF NOT EXISTS).
TransferLog_new(files, id) ==
    IF id \in DOMAIN files THEN files ELSE files @@ (id :> <<>>)

\* fs::remove_file on the ledger file of the id.
remove_file(files, id) == [i \in DOMAIN files \ {id} |-> files[i]]

\* What the history table's verbs, run one at a time, leave alone.
transfer_vars == <<source_vars, history, ledger, sender_vars, c2s, s2c, receiver_vars,
                   rfs0, peer>>

\* main, Commands::Push, up to TransferLog::new: add_transfer inserts the row
\* and returns its id, and the ledger of that id is opened.
AddTransfer ==
    /\ removing = 0
    /\ Len(issued) < MaxTransfers
    /\ LET id == next_id(catalog, issued)
       IN  /\ catalog' = catalog \cup {id}
           /\ issued' = Append(issued, id)
           /\ logs' = TransferLog_new(logs, id)
    /\ UNCHANGED <<transfer_vars, removing>>

\* scan_files of a transfer adds the entry to its ledger.
ListEntry(id) ==
    /\ removing = 0
    /\ id \in catalog
    /\ id \in DOMAIN logs
    /\ logs' = [logs EXCEPT ![id] = add_file(@, Entry, 1, FALSE)]
    /\ UNCHANGED <<transfer_vars, catalog, issued, removing>>

\* send_pending_files of a transfer sends the entry and marks it Sent.
SendEntry(id) ==
    /\ removing = 0
    /\ id \in catalog
    /\ id \in DOMAIN logs
    /\ get_pending_files(logs[id]) # <<>>
    /\ logs' = [logs EXCEPT ![id] = mark_sent(@, Entry)]
    /\ UNCHANGED <<transfer_vars, catalog, issued, removing>>

\* main, Commands::Remove, the removal confirmed: get_transfer finds the row
\* and delete_transfer deletes it.
RemoveRow(id) ==
    /\ removing = 0
    /\ id \in catalog
    /\ catalog' = catalog \ {id}
    /\ removing' = id
    /\ UNCHANGED <<transfer_vars, logs, issued>>

\* main, Commands::Remove, after delete_transfer: the ledger file is removed
\* when it exists.
RemoveLedger ==
    /\ removing # 0
    /\ logs' = IF removing \in DOMAIN logs THEN remove_file(logs, removing) ELSE logs
    /\ removing' = 0
    /\ UNCHANGED <<transfer_vars, catalog, issued>>

\* main, Commands::Remove, after delete_transfer: fs::remove_file returns an
\* error, or the process ends before it, and the ledger file stays.
RemoveLedgerFails ==
    /\ removing # 0
    /\ removing \in DOMAIN logs
    /\ removing' = 0
    /\ UNCHANGED <<transfer_vars, catalog, logs, issued>>

NextCatalog ==
    \/ AddTransfer
    \/ \E id \in 1..MaxTransfers : ListEntry(id)
    \/ \E id \in 1..MaxTransfers : SendEntry(id)
    \/ \E id \in 1..MaxTransfers : RemoveRow(id)
    \/ RemoveLedger
    \/ RemoveLedgerFails

SpecCatalog == Init /\ [][NextCatalog]_vars

\* ------------------------------------------------------------------ claims

\* The frame the session is about to read, and the record the sender waits on.
FrameDue == rpc = "meta" /\ c2s # <<>> /\ Head(c2s).kind = "meta"
ResponseDue == pc = "await" /\ s2c # <<>>

\* The step writes the response and leaves the session waiting for a frame.
Responds(kind) ==
    /\ rpc' = "meta"
    /\ s2c' = Append(s2c, Response(kind, 0))
    /\ c2s' = Tail(c2s)

\* The status of the ledger row of a path.
StatusOf(log, relative_path) ==
    {log[i].status : i \in {j \in 1..Len(log) : log[j].relative_path = relative_path}}

\* C4: a frame whose path has a `..` component changes nothing on the receiver's
\* filesystem; while the sender is connected the receiver answers it with Error,
\* takes nothing but the frame off the connection and waits for the next frame;
\* the sender that reads Error ends its send phase, writes nothing more and
\* leaves the ledger, and so the record's Pending status, as it is.
C4_ParentDirRejected ==
    /\ [][(FrameDue /\ HasParentDir(Head(c2s).relative_path) /\ RecvMeta)
            => (rfs' = rfs /\ (ClientOpen => Responds("Error")))]_vars
    /\ [][(ResponseDue /\ Head(s2c).kind = "Error" /\ ReadResponse)
            => /\ pc' = "unsent"
               /\ ledger' = ledger
               /\ c2s' = c2s
               /\ StatusOf(ledger', Head(pending_files).relative_path) = {"Pending"}]_vars

\* C4 happens: the receiver has answered a `..` frame with Error, nothing was
\* created, and the sender is about to read the response.
C4_Witness ==
    /\ ResponseDue
    /\ Head(s2c).kind = "Error"
    /\ HasParentDir(Head(pending_files).relative_path)
    /\ rpc = "meta"
    /\ rfs = EmptyBase

\* C5: a frame whose path is absolute creates, writes and renames nothing.
C5_AbsoluteRejected ==
    [][(FrameDue /\ IsAbsolute(Head(c2s).relative_path) /\ RecvMeta) => rfs' = rfs]_vars

\* C10: a regular-file frame whose target exists with the declared size changes
\* nothing on the receiver's filesystem; while the sender is connected the
\* receiver answers it with Skip and takes nothing but the frame off the
\* connection; the sender that reads Skip for a regular file marks the record
\* Skipped and writes nothing.
C10_ExistingSkipped ==
    /\ [][(/\ FrameDue
           /\ ~Head(c2s).is_dir
           /\ ~HasParentDir(Head(c2s).relative_path)
           /\ Exists(rfs, Join(base_path, Head(c2s).relative_path))
           /\ Len(rfs[Join(base_path, Head(c2s).relative_path)].data) = Head(c2s).size
           /\ RecvMeta)
            => (rfs' = rfs /\ (ClientOpen => Responds("Skip")))]_vars
    /\ [][(/\ ResponseDue
           /\ Head(s2c).kind = "Skip"
           /\ ~Head(pending_files).is_dir
           /\ ReadResponse)
            => /\ StatusOf(ledger', Head(pending_files).relative_path) = {"Skipped"}
               /\ c2s' = c2s
               /\ pc' = "loop"]_vars

\* C10 happens: the target exists with the declared size, the receiver has
\* answered Skip and the sender is about to read it.
C10_Witness ==
    /\ ResponseDue
    /\ Head(s2c).kind = "Skip"
    /\ ~Head(pending_files).is_dir
    /\ Exists(rfs, Join(base_path, Head(pending_files).relative_path))
    /\ FileLen(rfs, Join(base_path, Head(pending_files).relative_path))
          = Head(pending_files).size
    /\ ~Exists(rfs, TempPath(Join(base_path, Head(pending_files).relative_path)))

\* The record the sender is working on, and the receiver's names for a path.
Current == Head(pending_files)
Target(relative_path) == Join(base_path, relative_path)

\* No sender process runs, no session runs and nothing is in flight.
Quiet == pc \in Stopped /\ rpc = "off" /\ c2s = <<>>

\* C1: once the transfer is Completed and all is quiet, every source path that
\* no exclude pattern matches is on the receiver under the base directory, a
\* directory as a directory and a file with the bytes of the source file.
C1_CompletedIsIdentical ==
    (Quiet /\ history.status = "Completed")
        => \A p \in DOMAIN srcfs :
              ~Excluded(history.exclude_patterns, p)
                  => Exists(rfs, Target(p)) /\ rfs[Target(p)] = srcfs[p]

\* C2: a step of a session that renames the temp file to the target leaves at
\* the target a file of exactly the declared size, whether the rename follows
\* the payload intake or the frame itself.
C2_RenameOnlyWhenComplete ==
    /\ [][(/\ rpc = "stream"
           /\ Exists(rfs, rfile.temp_path)
           /\ ~Exists(rfs', rfile.temp_path))
            => /\ Exists(rfs', rfile.target_path)
               /\ Len(rfs'[rfile.target_path].data) = rfile.size]_vars
    /\ [][(/\ FrameDue
           /\ ~Head(c2s).is_dir
           /\ Exists(rfs, TempPath(Target(Head(c2s).relative_path)))
           /\ ~Exists(rfs', TempPath(Target(Head(c2s).relative_path)))
           /\ RecvMeta)
            => /\ Exists(rfs', Target(Head(c2s).relative_path))
               /\ Len(rfs'[Target(Head(c2s).relative_path)].data) = Head(c2s).size]_vars

\* The temp file of the session holds k bytes, 0 < k < size.
PartialTemp ==
    /\ rpc = "stream"
    /\ Exists(rfs, rfile.temp_path)
    /\ Len(rfs[rfile.temp_path].data) > 0
    /\ Len(rfs[rfile.temp_path].data) < rfile.size

\* C3: a session that ends, by the sender's close or by an error, while its
\* temp file holds k bytes with 0 < k < size leaves the receiver's filesystem as
\* it is, the k bytes at the temp path and nothing renamed; and a regular-file
\* frame that finds k such bytes at its temp path is answered Resume{k}.
C3_PartialTempKept ==
    /\ [][(PartialTemp /\ (RecvEof \/ ConnectionReset)) => rfs' = rfs]_vars
    /\ [][(/\ FrameDue
           /\ ClientOpen
           /\ ~Head(c2s).is_dir
           /\ ~HasParentDir(Head(c2s).relative_path)
           /\ ~Exists(rfs, Target(Head(c2s).relative_path))
           /\ Exists(rfs, TempPath(Target(Head(c2s).relative_path)))
           /\ ~rfs[TempPath(Target(Head(c2s).relative_path))].dir
           /\ Len(rfs[TempPath(Target(Head(c2s).relative_path))].data) > 0
           /\ Len(rfs[TempPath(Target(Head(c2s).relative_path))].data) < Head(c2s).size
           /\ RecvMeta)
            => /\ rfs' = rfs
               /\ s2c' = Append(s2c,
                     Response("Resume",
                              Len(rfs[TempPath(Target(Head(c2s).relative_path))].data)))]_vars

\* C6: when no session runs and nothing is in flight, every regular file whose
\* ledger row is Sent is a file at its target of the size the ledger records.
C6_SentIsDelivered ==
    (rpc = "off" /\ c2s = <<>>)
        => \A i \in 1..Len(ledger) :
              (ledger[i].status = "Sent" /\ ~ledger[i].is_dir)
                  => /\ Exists(rfs, Target(ledger[i].relative_path))
                     /\ ~rfs[Target(ledger[i].relative_path)].dir
                     /\ Len(rfs[Target(ledger[i].relative_path)].data) = ledger[i].size

\* C7: in the Resume arm a record is marked Sent only when all of its
\* size - offset payload bytes have been written to the socket.
C7_ResumeStreamsAll ==
    [][(/\ pc = "resume"
        /\ StatusOf(ledger, Current.relative_path) = {"Pending"}
        /\ StatusOf(ledger', Current.relative_path) = {"Sent"})
         => remaining = 0]_vars

\* C8: a Send or Resume response for a regular file whose size is no longer the
\* size in the ledger ends the send phase with nothing written to the socket
\* and the ledger as it was.
C8_SizeDriftAborts ==
    [][(/\ ResponseDue
        /\ Head(s2c).kind \in {"Send", "Resume"}
        /\ ~Current.is_dir
        /\ Exists(srcfs, Current.relative_path)
        /\ Len(srcfs[Current.relative_path].data) # Current.size
        /\ ReadResponse)
         => (pc' = "unsent" /\ ledger' = ledger /\ c2s' = c2s)]_vars

\* C9: a pending record that no exclude pattern matches and whose source path
\* is gone is marked Skipped, no frame is written for it, and the loop goes on.
C9_MissingMarkedSkipped ==
    [][(/\ pc = "loop"
        /\ pending_files # <<>>
        /\ ~Excluded(final_excludes, Current.relative_path)
        /\ ~Exists(srcfs, Current.relative_path)
        /\ NextRecord)
         => /\ StatusOf(ledger', Current.relative_path) = {"Skipped"}
            /\ c2s' = c2s
            /\ pc' = "loop"]_vars

\* The frame the session is about to read is for a regular file with a safe
\* path, and the temp file of its target is a regular file.
FileFrameDue ==
    /\ FrameDue
    /\ ~Head(c2s).is_dir
    /\ ~HasParentDir(Head(c2s).relative_path)
    /\ ~IsAbsolute(Head(c2s).relative_path)

\* The temp path of the frame that is due, and the length of the file there.
DueTemp == TempPath(Target(Head(c2s).relative_path))
DueTempLen == Len(rfs[DueTemp].data)
TempDue == FileFrameDue /\ Exists(rfs, DueTemp) /\ ~rfs[DueTemp].dir

\* The target of the frame that is due is absent or has another size.
TargetDiffers ==
    \/ ~Exists(rfs, Target(Head(c2s).relative_path))
    \/ Len(rfs[Target(Head(c2s).relative_path)].data) # Head(c2s).size

\* The file the payload intake writes to, after a step: the temp file, or the
\* target once the temp file was renamed.
IntakeFileAfter ==
    IF Exists(rfs', rfile.temp_path) THEN rfs'[rfile.temp_path].data
    ELSE rfs'[rfile.target_path].data

\* C11: a regular-file frame whose target is absent or of another size and
\* whose temp file holds k bytes, 0 < k < size, leaves the filesystem as it is,
\* is answered Resume{k} and starts the intake of size - k bytes; the intake
\* appends, what the temp file held stays in front; and every Resume offset on
\* the connection is above 0 and below the size of the record it answers, so
\* the sender's count size - offset is never negative.
C11_ResumeFromTemp ==
    /\ [][(TempDue /\ TargetDiffers /\ DueTempLen > 0 /\ DueTempLen < Head(c2s).size
              /\ RecvMeta)
            => /\ rfs' = rfs
               /\ ClientOpen
                    => /\ s2c' = Append(s2c, Response("Resume", DueTempLen))
                       /\ rpc' = "stream"
                       /\ rfile'.temp_path = DueTemp
                       /\ rremaining' = Head(c2s).size - DueTempLen]_vars
    /\ [][(rpc = "stream" /\ RecvByte)
            => SubSeq(IntakeFileAfter, 1, Len(rfs[rfile.temp_path].data))
                  = rfs[rfile.temp_path].data]_vars
    /\ [](\A i \in 1..Len(s2c) :
             s2c[i].kind = "Resume"
                => s2c[i].offset > 0 /\ pc = "await" /\ s2c[i].offset < Current.size)
    /\ [](pc = "resume" => remaining >= 0)

\* C11 happens: the receiver has answered Resume{k} from a temp file of k
\* bytes and is waiting for the rest of the payload.
C11_Witness ==
    /\ ResponseDue
    /\ Head(s2c).kind = "Resume"
    /\ rpc = "stream"
    /\ Exists(rfs, rfile.temp_path)
    /\ Len(rfs[rfile.temp_path].data) = Head(s2c).offset
    /\ rremaining = rfile.size - Head(s2c).offset

\* C12 as stated: a regular-file frame whose target is absent or of another
\* size and whose temp file holds at least the declared size, the same or
\* more, has the temp file renamed to the target and is answered Skip.
C12_TempAtLeastSizeFinalized ==
    [][(TempDue /\ TargetDiffers /\ DueTempLen >= Head(c2s).size /\ ClientOpen /\ RecvMeta)
         => /\ ~Exists(rfs', DueTemp)
            /\ Exists(rfs', Target(Head(c2s).relative_path))
            /\ Responds("Skip")]_vars

\* C12, amended: a regular-file frame whose target is absent or of another
\* size and whose temp file holds exactly the declared size has the temp file
\* renamed to the target with its bytes and is answered Skip, nothing else on
\* the filesystem changes and no payload is read.
C12_TempOfSizeFinalized ==
    [][(TempDue /\ TargetDiffers /\ DueTempLen = Head(c2s).size /\ RecvMeta)
         => /\ rfs' = Rename(rfs, DueTemp, Target(Head(c2s).relative_path))
            /\ rfs'[Target(Head(c2s).relative_path)] = rfs[DueTemp]
            /\ ClientOpen => Responds("Skip")]_vars

\* C12 happens: a temp file of one or more bytes, as many as declared, was
\* renamed to the target and the receiver answered Skip without an intake.
C12_Witness ==
    /\ ResponseDue
    /\ Head(s2c).kind = "Skip"
    /\ ~Current.is_dir
    /\ Current.size > 0
    /\ StatusOf(ledger, <<"d", "a.tmp">>) = {"Sent"}
    /\ Current.relative_path = <<"d", "a">>
    /\ ~Exists(rfs, TempPath(Target(Current.relative_path)))
    /\ Exists(rfs, Target(Current.relative_path))
    /\ rfs[Target(Current.relative_path)].data = srcfs[<<"d", "a.tmp">>].data
    /\ rpc = "meta"

\* The step truncates the temp file of the frame that is due, answers Send and
\* starts the intake of the whole file.
RestartsTemp ==
    /\ rfs' = FileCreate(rfs, DueTemp)
    /\ s2c' = Append(s2c, Response("Send", 0))
    /\ rpc' = "stream"
    /\ rfile'.temp_path = DueTemp
    /\ rremaining' = Head(c2s).size

C14_EmptyFileSent ==
    /\ [][(/\ FileFrameDue
           /\ Head(c2s).size = 0
           /\ ~Exists(rfs, Target(Head(c2s).relative_path))
           /\ ~Exists(rfs, DueTemp)
           /\ ClientOpen
           /\ RecvMeta)
            => /\ s2c' = Append(s2c, Response("Send", 0))
               /\ Exists(rfs', Target(Head(c2s).relative_path))
               /\ rfs'[Target(Head(c2s).relative_path)] = File(<<>>)]_vars
    /\ [][(/\ ResponseDue
           /\ ~Current.is_dir
           /\ Current.size = 0
           /\ ~Exists(rfs, TempPath(Target(Current.relative_path)))
           /\ rfs[Target(Current.relative_path)] = File(<<>>)
           /\ srcfs[Current.relative_path] = File(<<>>)
           /\ ReadResponse)
            => StatusOf(ledger', Current.relative_path) # {"Skipped"}]_vars

\* C15: a directory frame with a safe path leaves its target a directory, made
\* if it was missing and left alone if it was there, with every other entry of
\* the filesystem as it was; while the sender is connected the receiver
\* answers Skip, takes nothing but the frame off the connection and waits for
\* the next frame.  The sender that reads Skip for a directory record marks it
\* Sent and writes nothing.
C15_DirectoryCreated ==
    /\ [][(/\ FrameDue
           /\ Head(c2s).is_dir
           /\ ~HasParentDir(Head(c2s).relative_path)
           /\ ~IsAbsolute(Head(c2s).relative_path)
           /\ RecvMeta)
            => /\ Exists(rfs', Target(Head(c2s).relative_path))
               /\ rfs'[Target(Head(c2s).relative_path)].dir
               /\ \A p \in DOMAIN rfs : Exists(rfs', p) /\ rfs'[p] = rfs[p]
               /\ \A p \in DOMAIN rfs' : rfs'[p].dir \/ Exists(rfs, p)
               /\ ClientOpen => Responds("Skip")]_vars
    /\ [][(ResponseDue /\ Current.is_dir /\ ReadResponse)
            => /\ StatusOf(ledger', Current.relative_path) = {"Sent"}
               /\ c2s' = c2s
               /\ pc' = "loop"]_vars

\* C15 happens: a directory that a session before this one had made was
\* asked for again, and the sender is about to read the Skip.
C15_Witness ==
    /\ ResponseDue
    /\ Current.is_dir
    /\ Head(s2c).kind = "Skip"
    /\ cmd = "resume"
    /\ rfs[Target(Current.relative_path)].dir
    /\ rpc = "meta"
    /\ c2s = <<>>

\* C16: every ledger row of a directory has size 0.
C16_DirectoryRowsEmpty ==
    \A i \in 1..Len(ledger) : ledger[i].is_dir => ledger[i].size = 0

\* C17: the payload intake takes payload bytes only and a frame is read only
\* where a frame starts: no step of the intake takes a metadata frame off the
\* connection, and while the session waits for a frame what comes next on the
\* connection is a frame.
C17_FramesAndPayloadApart ==
    /\ [][(rpc = "stream" /\ RecvByte) => Head(c2s).kind = "byte"]_vars
    /\ [](rpc = "meta" /\ c2s # <<>> => Head(c2s).kind = "meta")

\* C18: no step takes a row out of the ledger or changes its path, and a row
\* that is Sent or Skipped keeps its status.
C18_StatusMonotonic ==
    [][\A i \in 1..Len(ledger) :
          /\ i <= Len(ledger')
          /\ ledger'[i].relative_path = ledger[i].relative_path
          /\ ledger[i].status # "Pending" => ledger'[i].status = ledger[i].status]_vars

\* C18 happens: a resume run has been through its send loop, and the ledger
\* has a file row Sent and a row Skipped.
C18_Witness ==
    /\ cmd = "resume"
    /\ pc = "loop"
    /\ pending_files = <<>>
    /\ \E i \in 1..Len(ledger) : ledger[i].status = "Sent" /\ ~ledger[i].is_dir
    /\ \E i \in 1..Len(ledger) : ledger[i].status = "Skipped"

\* The ledger has a row for the path.
HasRow(log, relative_path) == \E i \in 1..Len(log) : log[i].relative_path = relative_path

\* C19: a step of the scan leaves every row of the ledger as it is; for an
\* entry that has a row it changes nothing, and otherwise it adds at most one
\* row, for that entry, at the end; and no two rows of the ledger ever have
\* the same path.
C19_ScanIdempotent ==
    /\ [][(pc = "scan" /\ scan_pos <= Len(walk) /\ ScanEntry)
            => /\ \A i \in 1..Len(ledger) : i <= Len(ledger') /\ ledger'[i] = ledger[i]
               /\ HasRow(ledger, walk[scan_pos]) => ledger' = ledger
               /\ ledger' # ledger
                    => /\ Len(ledger') = Len(ledger) + 1
                       /\ ledger'[Len(ledger')].relative_path = walk[scan_pos]]_vars
    /\ [](\A i, j \in 1..Len(ledger) :
             ledger[i].relative_path = ledger[j].relative_path => i = j)

\* C19 happens: a scan run again by resume has passed its first entry, which
\* had its row, with others, from the scan that was cut short.
C19_Witness ==
    /\ cmd = "resume"
    /\ pc = "scan"
    /\ scan_pos = 2
    /\ Len(ledger) >= 2
    /\ ledger[1].relative_path = walk[1]
    /\ ~history.listing_complete

\* C20: once the transfer is Completed, no step of a later run writes a frame
\* or a payload byte to the connection or changes a row of the ledger, and the
\* transfer stays Completed.
C20_ResumeOfCompletedIdle ==
    [][history.status = "Completed"
         => /\ ledger' = ledger
            /\ Len(c2s') <= Len(c2s)
            /\ history'.status = "Completed"]_vars

\* C21: in the send phase a pending record that one of the verb's exclude
\* patterns matches is marked Skipped and the loop goes on to the next record
\* with nothing written to the connection, whichever verb put the record in the
\* ledger; a pending record no pattern matches, whose source path exists, has
\* its metadata frame written while the receiver's session is there.
C21_ExcludedSkippedUnsent ==
    /\ [][(/\ pc = "loop"
           /\ pending_files # <<>>
           /\ \E pat \in final_excludes : Matches(pat, Current.relative_path)
           /\ NextRecord)
            => /\ StatusOf(ledger', Current.relative_path) = {"Skipped"}
               /\ c2s' = c2s
               /\ pc' = "loop"
               /\ pending_files' = Tail(pending_files)]_vars
    /\ [][(/\ pc = "loop"
           /\ pending_files # <<>>
           /\ ~\E pat \in final_excludes : Matches(pat, Current.relative_path)
           /\ Exists(srcfs, Current.relative_path)
           /\ rpc # "off"
           /\ NextRecord)
            => /\ c2s' = Append(c2s, MetaFrame(Current))
               /\ pc' = "await"
               /\ ledger' = ledger]_vars

\* A resume that was first to give the pattern has marked a.tmp, which the push
\* had listed, Skipped, and goes on with the records left.
C21_Witness ==
    /\ cmd = "resume"
    /\ pc = "loop"
    /\ final_excludes = {"*.tmp"}
    /\ StatusOf(ledger, <<"d", "a.tmp">>) = {"Skipped"}
    /\ ~Exists(rfs, Target(<<"d", "a.tmp">>))
    /\ pending_files # <<>>

\* C22: a push that ended, its process not killed, has left the transfer
\* Completed when scan and send phase succeeded and Failed when a step failed:
\* the row of an ended push is never Pending.
C22_PushEndsSettled ==
    (cmd = "push" /\ pc \in {"sent", "unsent", "error"})
        => /\ history.status = (IF pc = "sent" THEN "Completed" ELSE "Failed")
           /\ history.status # "Pending"

\* C23: a resume that ended, its process not killed, has left the transfer
\* Completed when the send phase succeeded and Failed when it failed, whatever
\* the status was before.
C23_ResumeEndsSettled ==
    (cmd = "resume" /\ pc \in {"sent", "unsent"})
        => history.status = (IF pc = "sent" THEN "Completed" ELSE "Failed")

\* C30: a Completed transfer has no Pending row in its ledger.
C30_CompletedNothingPending ==
    history.status = "Completed"
        => \A i \in 1..Len(ledger) : ledger[i].status # "Pending"

\* Whether the ledger lists the tree: every entry of the walk that exists and
\* that the transfer's exclude patterns do not match has a row.
ListingComplete(log, h) ==
    \A i \in 1..Len(walk) :
        (Exists(srcfs, walk[i]) /\ ~Excluded(h.exclude_patterns, walk[i]))
            => StatusOf(log, walk[i]) # {}

\* C24: listing_complete is true only when a scan ran to its end since the
\* transfer was created or last restarted, so that the ledger lists the tree
\* whenever no restart is between its writes;
\* the flag turns true only where scan_files has returned Ok; a resume that
\* finds the flag false scans, with the rows as they are, before it connects,
\* and a resume that finds it true connects without a scan.
C24_ListingCompleteMeansScanned ==
    /\ []((history.listing_complete /\ pc # "reset")
            => ListingComplete(ledger, history))
    /\ [][(~history.listing_complete /\ history'.listing_complete)
            => (pc = "scan" /\ scan_pos > Len(walk))]_vars
    /\ [][(\E exclude \in SUBSET Patterns : Resume(exclude))
            => /\ ledger' = ledger
               /\ pc' = (IF history.listing_complete THEN "connect" ELSE "scan")
               /\ history'.listing_complete = history.listing_complete]_vars

\* C25: a restart scans with the ledger emptied, the transfer Pending and its
\* listing incomplete, so that every row it adds is Pending; its send phase
\* starts only from a scan that has ended, with every row Pending; a restart
\* whose scan failed leaves listing_complete false.
C25_RestartStartsAfresh ==
    /\ [][RestartMark
            => /\ ledger = <<>>
               /\ pc' = "scan"
               /\ ~history'.listing_complete
               /\ history'.status = "Pending"]_vars
    /\ [](cmd = "restart" /\ pc \in {"scan", "connect"}
            => /\ \A i \in 1..Len(ledger) : ledger[i].status = "Pending"
               /\ history.status = "Pending"
               /\ history.listing_complete = (pc = "connect"))
    /\ [][(cmd' = "restart" /\ pc # "connect" /\ pc' = "connect") => ScanDone]_vars
    /\ [](cmd = "restart" /\ pc = "error" => ~history.listing_complete)

\* A restart of a transfer that had delivered d/a is about to connect, the row
\* of d/a listed again.
C25_Witness ==
    /\ cmd = "restart"
    /\ pc = "connect"
    /\ StatusOf(ledger, <<"d", "a">>) = {"Pending"}
    /\ Exists(rfs, Target(<<"d", "a">>))

\* A restart or a push has ended with its send phase Ok and the receiver has
\* taken all that was sent.
RunDelivered(verb) == cmd = verb /\ pc = "sent" /\ rpc = "off" /\ c2s = <<>>

\* The receiver's filesystem a run with the patterns `excl` leaves, started on
\* an empty ledger and the receiver's filesystem as it was.
FinalReceiver(excl) == Delivered(rfs0, ScanAll(<<>>, walk, excl))

C27_IdsMonotonic ==
    /\ [][AddTransfer
            => \A i \in 1..Len(issued) : issued'[Len(issued')] > issued[i]]_vars
    /\ [](\A i, j \in 1..Len(issued) : i < j => issued[i] < issued[j])

\* C28: a remove that has run to its end leaves neither the row nor the ledger
\* of its id, and the ledger of a transfer that is created is empty, whatever
\* pushes and removes came before.
C28_LedgerOwned ==
    /\ [][RemoveLedger => (removing \notin catalog' /\ removing \notin DOMAIN logs')]_vars
    /\ [][AddTransfer => logs'[issued'[Len(issued')]] = <<>>]_vars

\* Both senders have ended, both sessions have ended and nothing is in flight.
BothDone ==
    /\ pc = "sent"
    /\ peer.pc = "done"
    /\ rpc = "off"
    /\ peer.rpc = "off"
    /\ c2s = <<>>
    /\ peer.c2s = <<>>

\* C29: never are two sessions both in the payload intake of the same temp
\* file; and when two sessions were sent the same path and size, the file at
\* the target in the end has the declared size and the source's content.
C29_SingleWriter ==
    /\ [](~(/\ rpc = "stream"
            /\ peer.rpc = "stream"
            /\ rfile.temp_path = peer.rfile.temp_path))
    /\ [](BothDone
            => /\ Exists(rfs, Target(<<"d", "a">>))
               /\ rfs[Target(<<"d", "a">>)].data = srcfs[<<"d", "a">>].data)

====
